---- MODULE Spec2Model ----
(***************************************************************************)
(* A model of salt/utils/process.py: the ThreadPool (bounded queue of      *)
(* fire-and-forget tasks, daemon worker threads) and the ProcessManager    *)
(* (registry of child processes, restart, supervision loop, shutdown).     *)
(***************************************************************************)
EXTENDS Integers, Sequences, FiniteSets, TLC

(* ---------------- bounds of the model ---------------- *)
MaxThreads == 2
MaxQueueSize == 2
MaxFire == 4
MaxPid == 2        \* the OS hands out the pids 1..MaxPid to children
MaxStarts == 2     \* process.start() succeeds at most MaxStarts times
MaxKillCalls == 1  \* kill_children is invoked at most MaxKillCalls times
MaxNesting == 2    \* signal handler executions nested in one another

(* ======================================================================= *)
(*                               ThreadPool                                *)
(* ======================================================================= *)

VARIABLES
    num_threads,   \* ThreadPool.num_threads
    queue_size,    \* maxsize of ThreadPool._job_queue (0: unbounded)
    job_queue,     \* contents of ThreadPool._job_queue, head first
    workers,       \* ThreadPool._workers: thread -> [st, task]
    fired,         \* history of the fire_async calls: [task, ret, taken]
    taken,         \* number of tasks dequeued by the workers so far
    completed      \* number of task invocations that have ended so far

poolvars == <<num_threads, queue_size, job_queue, workers, fired, taken, completed>>

\* What the callable of a task does when a worker invokes it.
TaskKinds == {"returns", "raises_Exception", "raises_SystemExit"}

NoTask == [id |-> 0, kind |-> "none"]

\* queue.Queue.put_nowait: Full is raised only for maxsize > 0 and
\* qsize >= maxsize; otherwise the item is appended at the tail.
QueueFull(q, maxsize) == maxsize > 0 /\ Len(q) >= maxsize

\* mutant: the fullness test is off by one (qsize > maxsize)
put_nowait_offbyone(q, maxsize, item) ==
    IF maxsize > 0 /\ Len(q) > maxsize THEN [full |-> TRUE, q |-> q]
    ELSE [full |-> FALSE, q |-> Append(q, item)]

put_nowait(q, maxsize, item) ==
    IF QueueFull(q, maxsize) THEN [full |-> TRUE, q |-> q]
    ELSE [full |-> FALSE, q |-> Append(q, item)]

\* ThreadPool.__init__: the threads are started eagerly, each one enters
\* _thread_target and blocks in _job_queue.get(timeout=1).
PoolInit ==
    /\ num_threads \in 1..MaxThreads
    /\ queue_size \in 0..MaxQueueSize
    /\ job_queue = <<>>
    /\ workers = [w \in 1..num_threads |-> [st |-> "get", task |-> NoTask]]
    /\ fired = <<>>
    /\ taken = 0
    /\ completed = 0

\* ThreadPool.fire_async(func, args, kwargs)
fire_async(kind) ==
    /\ Len(fired) < MaxFire
    /\ LET task == [id |-> Len(fired) + 1, kind |-> kind]
           r == put_nowait(job_queue, queue_size, task)
       IN /\ job_queue' = r.q
          /\ fired' = Append(fired, [task |-> task, ret |-> ~r.full, taken |-> taken])
    /\ UNCHANGED <<num_threads, queue_size, workers, taken, completed>>

\* mutant: the worker reads the head of the queue and leaves it there
thread_get_peek(w) ==
    /\ workers[w].st = "get"
    /\ job_queue /= <<>>
    /\ workers' = [workers EXCEPT ![w] = [st |-> "run", task |-> Head(job_queue)]]
    /\ taken' = taken + 1
    /\ UNCHANGED <<num_threads, queue_size, job_queue, fired, completed>>

\* _thread_target, lines 326-331: a successful _job_queue.get(timeout=1).
\* (When the queue stays empty for 1s, queue.Empty is caught and the loop
\* continues: the worker stays in "get", a stuttering step.)
thread_get(w) ==
    /\ workers[w].st = "get"
    /\ job_queue /= <<>>
    /\ workers' = [workers EXCEPT ![w] = [st |-> "run", task |-> Head(job_queue)]]
    /\ job_queue' = Tail(job_queue)
    /\ taken' = taken + 1
    /\ UNCHANGED <<num_threads, queue_size, fired, completed>>

\* The state of the worker thread after func(*args, **kwargs) has ended,
\* lines 337-344: "except Exception" catches Exception and its subclasses;
\* SystemExit derives from BaseException only, leaves _thread_target and
\* ends the thread.
after_call(kind) ==
    IF kind \in {"returns", "raises_Exception"} THEN "get" ELSE "dead"

\* _thread_target, lines 337-344: the invocation of the task ends.
thread_call(w) ==
    /\ workers[w].st = "run"
    /\ workers' = [workers EXCEPT ![w] = [st |-> after_call(workers[w].task.kind),
                                          task |-> NoTask]]
    /\ completed' = completed + 1
    /\ UNCHANGED <<num_threads, queue_size, job_queue, fired, taken>>

LiveWorkers == {w \in DOMAIN workers : workers[w].st /= "dead"}


(* ======================================================================= *)
(*                             ProcessManager                              *)
(* ======================================================================= *)

VARIABLES
    is_windows,         \* salt.utils.platform.is_windows()
    main_process,       \* multiprocessing.current_process().name == 'MainProcess'
    getpid,             \* os.getpid() of the process whose memory is modelled
    process_map,        \* ProcessManager._process_map: pid -> record
    map_order,          \* the entries of the dict in insertion order, 0: deleted
    procs,              \* the Process objects that are alive or recorded in the
                        \* map, by handle: [pid, alive, sigs]
    nstarted,           \* number of successful process.start() calls so far
    restart_processes,  \* ProcessManager._restart_processes
    sigterm_handler,    \* ProcessManager._sigterm_handler
    disp,               \* the dispositions of SIGINT and SIGTERM in this process
    stack,              \* call stack of the supervisor thread, top last
    nkills,             \* number of kill_children invocations so far
    lastOp              \* outcome of the call that has just ended

supvars == <<is_windows, main_process, getpid, process_map, map_order, procs,
             nstarted, restart_processes, sigterm_handler, disp, stack, nkills,
             lastOp>>

\* ProcessManager._pid, the pid of the process that made the ProcessManager
_pid == "owner"

Pids == 1..MaxPid
Sigs == {"SIGINT", "SIGTERM"}

\* what signal.getsignal can return: the two special dispositions, None
\* (a handler not installed from Python) and a Python callable
Handlers == {"SIG_DFL", "SIG_IGN", "None", "callable"}

IsProcessClass(tgt) == tgt \in {"ProcessClass", "SignalHandlingClass"}

\* the calls of add_process the host makes: a function or a process class,
\* with and without positional arguments, with and without '_opts' (a
\* non-empty dict) among the kwargs
WithOpts == [k \in {"_opts"} |-> "OPTS"]
AddCalls == {[tgt |-> "function", args |-> <<>>, kwargs |-> <<>>],
             [tgt |-> "function", args |-> <<"a">>, kwargs |-> WithOpts],
             [tgt |-> "ProcessClass", args |-> <<>>, kwargs |-> WithOpts],
             [tgt |-> "SignalHandlingClass", args |-> <<"a">>, kwargs |-> <<>>]}

LeanCalls == {[tgt |-> "function", args |-> <<>>, kwargs |-> <<>>]}

\* kill_children(*args, **kwargs): the signal arguments (none, or the signal
\* and a frame) and the retry count (kwargs.get('retry', 3))
DefaultRetry == 3
KillArgs == {"none", "SIGTERM"}
RetryIn == {DefaultRetry, 0}

NoOp == [op |-> "none"]

Idle == stack = <<>>
Top == stack[Len(stack)]
Pop == SubSeq(stack, 1, Len(stack) - 1)
ReplaceTop(f) == [stack EXCEPT ![Len(stack)] = f]
Running(fn) == ~Idle /\ Top.fn = fn

\* dict.__setitem__ and dict.__delitem__ of _process_map; a new key takes the
\* next entry slot, a deleted key leaves a dummy slot behind (CPython compacts
\* the slots when the sixth entry is added, beyond what MaxStarts allows)
DictSet(d, pid, rec) ==
    [m |-> [p \in (DOMAIN d.m) \cup {pid} |-> IF p = pid THEN rec ELSE d.m[p]],
     o |-> IF pid \in DOMAIN d.m THEN d.o ELSE Append(d.o, pid)]

DictDel(d, pid) ==
    [m |-> [p \in (DOMAIN d.m) \ {pid} |-> d.m[p]],
     o |-> [i \in DOMAIN d.o |-> IF d.o[i] = pid THEN 0 ELSE d.o[i]]]

TheDict == [m |-> process_map, o |-> map_order]

\* the keys of a dict in iteration order
RECURSIVE LiveKeys(_)
LiveKeys(o) ==
    IF o = <<>> THEN <<>>
    ELSE IF Head(o) = 0 THEN LiveKeys(Tail(o))
    ELSE <<Head(o)>> \o LiveKeys(Tail(o))

\* Process.is_alive() of the handle h in the processes ps
is_alive(ps, h) == h \in DOMAIN ps /\ ps[h].alive

\* the Process objects worth keeping: those alive and those recorded
Keep(m, ps) ==
    [h \in {i \in DOMAIN ps : ps[i].alive \/ \E p \in DOMAIN m : m[p].Process = i}
        |-> ps[h]]

\* the pids a new child can get: multiprocessing reaps the dead children
\* when a Process is started, so every pid without a live process is free
FreePids(ps) == Pids \ {ps[h].pid : h \in {i \in DOMAIN ps : ps[i].alive}}

\* the pids the OS can give to a child started now, up to the names of the
\* pids: a free pid that is a key of the map (the pid of a dead recorded
\* child is used again), or a free pid that is no key of the map, of which
\* the least stands for all
NewPids(d, ps) ==
    LET free == FreePids(ps)
        fresh == free \ DOMAIN d.m
    IN (free \cap DOMAIN d.m)
       \cup {p \in fresh : \A q \in fresh : p <= q}

\* how often signal.signal was called for each signal
NoCalls == [s \in Sigs |-> 0]

\* default_signals, lines 875-889: for each signal in turn the disposition
\* is saved and the default installed; for the signals in fails one of the
\* two calls raises ValueError (signals cannot be set off the main thread),
\* which is logged, and the signal is skipped. old is old_signals, the saved
\* dispositions in the order of their insertion.
RECURSIVE ds_swap(_, _, _, _)
ds_swap(d, old, signals, fails) ==
    IF signals = <<>> THEN [d |-> d, old |-> old]
    ELSE LET signum == Head(signals)
         IN IF signum \in fails
            THEN ds_swap(d, old, Tail(signals), fails)
            ELSE ds_swap([d EXCEPT ![signum] = "SIG_DFL"],
                         Append(old, [signum |-> signum, saved |-> d[signum]]),
                         Tail(signals), fails)

\* default_signals, lines 894-896, reached when the body has returned: each
\* saved disposition is installed again. signal.signal raises TypeError for
\* a saved disposition of None (a handler not installed from Python), which
\* ends the loop and leaves default_signals.
RECURSIVE ds_restore(_, _, _)
ds_restore(d, old, calls) ==
    IF old = <<>> THEN [d |-> d, raised |-> FALSE, calls |-> calls]
    ELSE LET signum == Head(old).signum
         IN IF Head(old).saved = "None"
            THEN [d |-> d, raised |-> TRUE, calls |-> calls]
            ELSE ds_restore([d EXCEPT ![signum] = Head(old).saved], Tail(old),
                            [calls EXCEPT ![signum] = @ + 1])

\* default_signals, lines 891-892: the body runs at the yield of a generator
\* that has no try/finally; an exception of the body is thrown into the
\* generator at the yield and leaves it there, the lines after the yield
\* are not run
ds_exit(d, old, body_raises) ==
    IF body_raises THEN [d |-> d, raised |-> TRUE, calls |-> NoCalls]
    ELSE ds_restore(d, old, NoCalls)

\* the dispositions after default_signals(SIGINT, SIGTERM) around a body,
\* as add_process uses it (line 462)
default_signals(d, body_raises) ==
    LET r == ds_swap(d, <<>>, <<"SIGINT", "SIGTERM">>, {})
    IN ds_exit(r.d, r.old, body_raises).d

\* add_process, lines 408-432: on Windows the logging queue and level are
\* added to the kwargs of a MultiprocessingProcess subclass
with_log_queue(tgt, kwargs) ==
    IF is_windows /\ tgt = "SignalHandlingClass"
    THEN [k \in (DOMAIN kwargs) \cup {"log_queue", "log_queue_level"} |->
             IF k \in DOMAIN kwargs THEN kwargs[k]
             ELSE IF k = "log_queue" THEN "QUEUE" ELSE "LEVEL"]
    ELSE kwargs

\* add_process, lines 448-459 and 467-471: the record stored for the child
\* with handle h
child_record(tgt, args, kwargs0, h) ==
    LET kwargs == with_log_queue(tgt, kwargs0)
        _opts == IF "_opts" \in DOMAIN kwargs THEN kwargs["_opts"] ELSE "EMPTY"
    IN IF IsProcessClass(tgt)
       THEN [tgt |-> tgt, args |-> args, kwargs |-> kwargs,
             Process |-> h, _opts |-> _opts]
       ELSE [tgt |-> tgt, args |-> <<tgt, _opts>> \o args,
             kwargs |-> [k \in (DOMAIN kwargs) \ {"_opts"} |-> kwargs[k]],
             Process |-> h, _opts |-> _opts]

NewProc(ps, h, pid) ==
    [i \in (DOMAIN ps) \cup {h} |->
        IF i = h THEN [pid |-> pid, alive |-> TRUE, sigs |-> {}] ELSE ps[i]]

\* mutant: the record is stored under the pid the Process object has before
\* it is started (None, here 0)
add_process_no_pid(d, ps, h, tgt, args, kwargs, pid) ==
    [d |-> DictSet(d, 0, child_record(tgt, args, kwargs, h)),
     procs |-> NewProc(ps, h, pid),
     h |-> h]

\* add_process, lines 461-472, when process.start() succeeds and the OS
\* gives the child the pid: the dict and the processes afterwards, and the
\* handle h that is returned
add_process(d, ps, h, tgt, args, kwargs, pid) ==
    [d |-> DictSet(d, pid, child_record(tgt, args, kwargs, h)),
     procs |-> NewProc(ps, h, pid),
     h |-> h]

\* mutant: add_process swallows the error of process.start() and records
\* the process that was never started under the pid it has, which is None
add_process_swallows(d, ps, tgt, args, kwargs) ==
    [d |-> DictSet(d, 0, child_record(tgt, args, kwargs, 0)),
     procs |-> ps, outcome |-> "return", val |-> 0]

\* add_process, lines 461-465, when process.start() raises because the OS
\* refuses to spawn the child: the exception leaves add_process before
\* line 467 is reached
add_process_refused(d, ps, tgt, args, kwargs) ==
    [d |-> d, procs |-> ps, outcome |-> "raise", val |-> "OSError"]

\* the host of the owner process calls the supervisor when no call is running
HostMayCall ==
    /\ getpid = _pid
    /\ Idle

\* ProcessManager.add_process(tgt, args, kwargs), called by the host
AddProcess(tgt, args, kwargs) ==
    /\ HostMayCall
    /\ \/ /\ nstarted < MaxStarts
          /\ \E pid \in NewPids(TheDict, procs) :
               LET r == add_process(TheDict, procs, nstarted + 1, tgt, args, kwargs, pid)
               IN /\ process_map' = r.d.m
                  /\ map_order' = r.d.o
                  /\ procs' = Keep(r.d.m, r.procs)
                  /\ lastOp' = [op |-> "add_process", outcome |-> "return",
                                val |-> r.h, start |-> "ok"]
          /\ nstarted' = nstarted + 1
          /\ disp' = IF tgt = "SignalHandlingClass"
                     THEN default_signals(disp, FALSE) ELSE disp
       \/ \* process.start() raises: the OS refuses to spawn the child
          /\ LET r == add_process_refused(TheDict, procs, tgt, args, kwargs)
             IN /\ process_map' = r.d.m
                /\ map_order' = r.d.o
                /\ procs' = r.procs
                /\ lastOp' = [op |-> "add_process", outcome |-> r.outcome,
                              val |-> r.val, start |-> "refused"]
          /\ disp' = IF tgt = "SignalHandlingClass"
                     THEN default_signals(disp, TRUE) ELSE disp
          /\ UNCHANGED nstarted
    /\ UNCHANGED <<is_windows, main_process, getpid, restart_processes,
                   sigterm_handler, stack, nkills>>

\* restart_process, lines 489-494: the kwargs handed to add_process
restart_kwargs(rec) ==
    IF rec._opts /= "EMPTY"
    THEN [k \in (DOMAIN rec.kwargs) \cup {"_opts"} |->
             IF k = "_opts" THEN rec._opts ELSE rec.kwargs[k]]
    ELSE rec.kwargs

\* mutant: restart_process without the test of _restart_processes
restart_process_unguarded(d, ps, h, pid, newpid) ==
    IF pid \notin DOMAIN d.m
    THEN [d |-> d, procs |-> ps, started |-> FALSE,
          outcome |-> "raise", val |-> "KeyError"]
    ELSE IF newpid = 0
    THEN [d |-> d, procs |-> ps, started |-> FALSE,
          outcome |-> "raise", val |-> "OSError"]
    ELSE LET rec == d.m[pid]
             r == add_process(d, ps, h, rec.tgt, rec.args, restart_kwargs(rec), newpid)
         IN [d |-> DictDel(r.d, pid), procs |-> r.procs, started |-> TRUE,
             outcome |-> "return", val |-> r.h]

\* restart_process(pid), lines 474-500: the dict and the processes
\* afterwards, when the start in add_process gives the new child the handle h
\* and the pid newpid; newpid = 0 stands for a process.start() that raises,
\* which leaves restart_process before the old entry is deleted
restart_process(d, ps, h, pid, newpid) ==
    IF restart_processes = FALSE
    THEN [d |-> d, procs |-> ps, started |-> FALSE,
          outcome |-> "return", val |-> 0]
    ELSE IF pid \notin DOMAIN d.m
    THEN [d |-> d, procs |-> ps, started |-> FALSE,
          outcome |-> "raise", val |-> "KeyError"]
    ELSE IF newpid = 0
    THEN [d |-> d, procs |-> ps, started |-> FALSE,
          outcome |-> "raise", val |-> "OSError"]
    ELSE LET rec == d.m[pid]
             r == add_process(d, ps, h, rec.tgt, rec.args, restart_kwargs(rec), newpid)
         IN [d |-> DictDel(r.d, pid), procs |-> r.procs, started |-> TRUE,
             outcome |-> "return", val |-> r.h]

\* the dispositions after restart_process(pid): add_process starts a
\* SignalHandlingMultiprocessingProcess inside default_signals
restart_disp(d, pid, newpid) ==
    IF restart_processes /= FALSE /\ pid \in DOMAIN d.m
       /\ d.m[pid].tgt = "SignalHandlingClass"
    THEN default_signals(disp, newpid = 0)
    ELSE disp

\* the pids process.start() can give in restart_process; 0: start raises
StartPids(ps) ==
    IF nstarted < MaxStarts THEN NewPids(TheDict, ps) \cup {0} ELSE {0}

\* ProcessManager.restart_process(pid), called by the host
RestartProcess(pid) ==
    /\ HostMayCall
    /\ \E np \in StartPids(procs) :
          LET r == restart_process(TheDict, procs, nstarted + 1, pid, np)
          IN /\ process_map' = r.d.m
             /\ map_order' = r.d.o
             /\ procs' = Keep(r.d.m, r.procs)
             /\ nstarted' = IF r.started THEN nstarted + 1 ELSE nstarted
             /\ disp' = restart_disp(TheDict, pid, np)
             /\ lastOp' = [op |-> "restart_process", outcome |-> r.outcome,
                           val |-> r.val, pid |-> pid]
    /\ UNCHANGED <<is_windows, main_process, getpid, restart_processes,
                   sigterm_handler, stack, nkills>>

\* ProcessManager.stop_restarting()
StopRestarting ==
    /\ HostMayCall
    /\ restart_processes' = FALSE
    /\ lastOp' = [op |-> "stop_restarting", outcome |-> "return"]
    /\ UNCHANGED <<is_windows, main_process, getpid, process_map, map_order,
                   procs, nstarted, sigterm_handler, disp, stack, nkills>>

\* a child process ends (it exits, crashes, or dies of a signal it got)
ChildDies(h) ==
    /\ procs[h].alive
    /\ procs' = Keep(process_map, [procs EXCEPT ![h].alive = FALSE])
    /\ UNCHANGED <<is_windows, main_process, getpid, process_map, map_order,
                   nstarted, restart_processes, sigterm_handler, disp, stack,
                   lastOp, nkills>>

(* ---------------- check_children ---------------- *)

\* six.iteritems(self._process_map): a dict iterator remembers its position
\* in the entry slots, the number of items left and the size of the dict
new_iter(d) ==
    [pos |-> 1, len |-> Cardinality(DOMAIN d.m), used |-> Cardinality(DOMAIN d.m)]

\* the first live entry slot at or after position i, 0 when there is none
RECURSIVE NextSlot(_, _)
NextSlot(o, i) ==
    IF i > Len(o) THEN 0
    ELSE IF o[i] /= 0 THEN i
    ELSE NextSlot(o, i + 1)

\* what the next() of the dict iterator can do: raise RuntimeError when the
\* size of the dict has changed, stop after the last slot, or yield the key
\* of the next live slot. An entry found after all the items the iterator
\* started with have been yielded is one added during the iteration: CPython
\* 3.8 and later raises "dictionary keys changed during iteration", earlier
\* 3.x yields it, a hash-ordered dict (Python 2) may not come across it.
IterNext(d, it) ==
    IF it.used /= Cardinality(DOMAIN d.m) THEN {[kind |-> "RuntimeError"]}
    ELSE LET i == NextSlot(d.o, it.pos)
         IN IF i = 0 THEN {[kind |-> "stop"]}
            ELSE IF it.len = 0
            THEN {[kind |-> "RuntimeError"], [kind |-> "stop"],
                  [kind |-> "yield", pid |-> d.o[i],
                   it |-> [it EXCEPT !.pos = i + 1]]}
            ELSE {[kind |-> "yield", pid |-> d.o[i],
                   it |-> [it EXCEPT !.pos = i + 1, !.len = it.len - 1]]}

\* the process objects of the recorded children that are dead
DeadRecorded ==
    {process_map[p].Process : p \in {q \in DOMAIN process_map :
                                        ~is_alive(procs, process_map[q].Process)}}

\* the frame of a check_children call: the dict iterator, the children that
\* are dead when the call starts, those it has called restart_process for,
\* and whether a signal handler has run during the call
CcFrame(caller) ==
    [fn |-> "check_children", caller |-> caller, it |-> new_iter(TheDict),
     dead0 |-> DeadRecorded, restarted |-> {}, interrupted |-> FALSE]

\* check_children, line 574: the loop is entered only when restarting is on
check_children_enters == restart_processes = TRUE

\* the end of a check_children call: back to the host, or back into run,
\* where an OSError is caught (line 561, break) and anything else leaves run
CcEnd(outcome, exc, restarted) ==
    IF Top.caller = "host"
    THEN /\ stack' = Pop
         /\ lastOp' = [op |-> "check_children", outcome |-> outcome, how |-> exc,
                       dead0 |-> Top.dead0, restarted |-> restarted]
    ELSE IF outcome = "return"
    THEN /\ stack' = Pop
         /\ lastOp' = NoOp
    ELSE /\ stack' = <<>>
         /\ lastOp' = [op |-> "run", how |-> exc, at |-> "check_children",
                       outcome |-> IF exc = "OSError" THEN "return" ELSE "raise"]

\* ProcessManager.check_children(), called by the host
CheckChildrenCall ==
    /\ HostMayCall
    /\ IF check_children_enters
       THEN /\ stack' = Append(stack, CcFrame("host"))
            /\ lastOp' = NoOp
       ELSE /\ lastOp' = [op |-> "check_children", outcome |-> "return", how |-> "off",
                          dead0 |-> DeadRecorded, restarted |-> {}]
            /\ UNCHANGED stack
    /\ UNCHANGED <<is_windows, main_process, getpid, process_map, map_order,
                   procs, nstarted, restart_processes, sigterm_handler, disp, nkills>>

\* check_children, lines 575-578: one round of the for loop
CheckChildrenStep ==
    /\ Running("check_children")
    /\ \E n \in IterNext(TheDict, Top.it) :
         \/ /\ n.kind = "RuntimeError"
            /\ CcEnd("raise", "RuntimeError", Top.restarted)
            /\ UNCHANGED <<process_map, map_order, procs, nstarted, disp>>
         \/ /\ n.kind = "stop"
            /\ CcEnd("return", "done", Top.restarted)
            /\ UNCHANGED <<process_map, map_order, procs, nstarted, disp>>
         \/ /\ n.kind = "yield"
            /\ is_alive(procs, process_map[n.pid].Process)
            /\ stack' = ReplaceTop([Top EXCEPT !.it = n.it])
            /\ lastOp' = NoOp
            /\ UNCHANGED <<process_map, map_order, procs, nstarted, disp>>
         \/ /\ n.kind = "yield"
            /\ ~is_alive(procs, process_map[n.pid].Process)
            /\ \E np \in StartPids(procs) :
                 LET r == restart_process(TheDict, procs, nstarted + 1, n.pid, np)
                     restarted == Top.restarted \cup {process_map[n.pid].Process}
                 IN /\ process_map' = r.d.m
                    /\ map_order' = r.d.o
                    /\ procs' = Keep(r.d.m, r.procs)
                    /\ nstarted' = IF r.started THEN nstarted + 1 ELSE nstarted
                    /\ disp' = restart_disp(TheDict, n.pid, np)
                    /\ IF r.outcome = "raise"
                       THEN CcEnd("raise", r.val, restarted)
                       ELSE /\ stack' = ReplaceTop([Top EXCEPT !.it = n.it,
                                                               !.restarted = restarted])
                            /\ lastOp' = NoOp
    /\ UNCHANGED <<is_windows, main_process, getpid, restart_processes,
                   sigterm_handler, nkills>>

(* ---------------- run ---------------- *)

AllRecordedDead ==
    \A p \in DOMAIN process_map : ~is_alive(procs, process_map[p].Process)

\* ProcessManager.run(asynchronous), called by the host
RunCall(asynchronous) ==
    /\ getpid = _pid
    /\ Idle
    /\ stack' = <<[fn |-> "run", pc |-> "install", asynchronous |-> asynchronous,
                   dead_at_check |-> FALSE, stale |-> FALSE,
                   interrupted |-> FALSE]>>
    /\ lastOp' = NoOp
    /\ UNCHANGED <<is_windows, main_process, getpid, process_map, map_order,
                   procs, nstarted, restart_processes, sigterm_handler, disp, nkills>>

\* mutant: run installs kill_children whatever the dispositions are
run_install_always(d) ==
    [s \in Sigs |-> "kill_children"]

\* run, lines 538-544: kill_children becomes the handler of a signal whose
\* disposition is the default
run_install(d) ==
    [s \in Sigs |-> IF d[s] = "SIG_DFL" THEN "kill_children" ELSE d[s]]

\* run, lines 535-544
RunInstall ==
    /\ Running("run")
    /\ Top.pc = "install"
    /\ disp' = run_install(disp)
    /\ stack' = ReplaceTop([Top EXCEPT !.pc = "check"])
    /\ lastOp' = NoOp
    /\ UNCHANGED <<is_windows, main_process, getpid, process_map, map_order,
                   procs, nstarted, restart_processes, sigterm_handler, nkills>>

\* run, line 550: the call of check_children
RunCheck ==
    /\ Running("run")
    /\ Top.pc = "check"
    /\ LET f == [Top EXCEPT !.pc = "sleep", !.interrupted = FALSE,
                            !.dead_at_check = /\ restart_processes = FALSE
                                              /\ process_map /= <<>>
                                              /\ AllRecordedDead]
       IN stack' = IF check_children_enters
                   THEN ReplaceTop(f) \o <<CcFrame("run")>>
                   ELSE ReplaceTop(f)
    /\ lastOp' = NoOp
    /\ UNCHANGED <<is_windows, main_process, getpid, process_map, map_order,
                   procs, nstarted, restart_processes, sigterm_handler, disp, nkills>>

\* run, lines 554-568: the sleep ends. A sleep that a signal handler has
\* interrupted either goes on (Python 3.5 and later, and gen.sleep) or raises
\* an error with errno EINTR, on which run breaks out of its loop.
RunSleep ==
    /\ Running("run")
    /\ Top.pc = "sleep"
    /\ \/ /\ stack' = ReplaceTop([Top EXCEPT !.pc = "test"])
          /\ lastOp' = NoOp
       \/ /\ Top.interrupted /\ ~Top.asynchronous
          /\ stack' = Pop
          /\ lastOp' = [op |-> "run", outcome |-> "return", how |-> "EINTR",
                        at |-> "sleep"]
    /\ UNCHANGED <<is_windows, main_process, getpid, process_map, map_order,
                   procs, nstarted, restart_processes, sigterm_handler, disp, nkills>>

\* run, lines 558-559: the loop ends when the map is empty
RunTest ==
    /\ Running("run")
    /\ Top.pc = "test"
    /\ IF Cardinality(DOMAIN process_map) = 0
       THEN /\ stack' = Pop
            /\ lastOp' = [op |-> "run", outcome |-> "return", how |-> "empty",
                          at |-> "test"]
       ELSE /\ stack' = ReplaceTop([Top EXCEPT !.pc = "check",
                                               !.stale = Top.dead_at_check])
            /\ lastOp' = NoOp
    /\ UNCHANGED <<is_windows, main_process, getpid, process_map, map_order,
                   procs, nstarted, restart_processes, sigterm_handler, disp, nkills>>

(* ---------------- kill_children ---------------- *)

\* a signal or a terminate request reaches the process with handle h
Deliver(ps, h, what) ==
    IF is_alive(ps, h) THEN [ps EXCEPT ![h].sigs = @ \cup {what}] ELSE ps

\* kill_children, lines 615-633 (POSIX), the loop over a copy of the map:
\* the signal of the handler is forwarded, terminate() is called, the entry
\* of a child that is not alive is deleted. terminate() raises for the live
\* child with the pid failpid an OSError that is neither ESRCH nor EACCES
\* (EPERM: the child runs under another uid); the loop ends there.
RECURSIVE term_posix(_, _, _, _, _, _)
term_posix(d, snap, ps, keys, sig, failpid) ==
    IF keys = <<>> THEN [d |-> d, procs |-> ps, raised |-> FALSE]
    ELSE LET pid == Head(keys)
             h == snap[pid].Process
             ps1 == IF sig /= "none" THEN Deliver(ps, h, sig) ELSE ps
         IN IF is_alive(ps, h) /\ pid = failpid
            THEN [d |-> d, procs |-> ps1, raised |-> TRUE]
            ELSE term_posix(IF is_alive(ps, h) THEN d ELSE DictDel(d, pid),
                            snap, Deliver(ps1, h, "terminate"),
                            Tail(keys), sig, failpid)

\* kill_children, lines 605-613 (Windows), the loop over the map: taskkill
\* and terminate() for every child, no entry is deleted; an error of
\* terminate() is not caught
RECURSIVE term_windows(_, _, _, _, _)
term_windows(d, snap, ps, keys, failpid) ==
    IF keys = <<>> THEN [d |-> d, procs |-> ps, raised |-> FALSE]
    ELSE LET pid == Head(keys)
             h == snap[pid].Process
             ps1 == Deliver(ps, h, "taskkill")
         IN IF is_alive(ps, h) /\ pid = failpid
            THEN [d |-> d, procs |-> ps1, raised |-> TRUE]
            ELSE term_windows(d, snap, Deliver(ps1, h, "terminate"),
                              Tail(keys), failpid)

\* kill_children, lines 639-649: one round of the graceful wait over a copy
\* of the map, join(0) and deletion of the children that are not alive
RECURSIVE join_pass(_, _, _, _)
join_pass(d, snap, ps, keys) ==
    IF keys = <<>> THEN d
    ELSE join_pass(IF is_alive(ps, snap[Head(keys)].Process)
                   THEN d ELSE DictDel(d, Head(keys)),
                   snap, ps, Tail(keys))

\* mutant: a round of the forced kill that only deletes the entries of the
\* dead children
RECURSIVE kill_pass_no_kill(_, _, _, _, _)
kill_pass_no_kill(d, snap, ps, keys, fails) ==
    IF keys = <<>> THEN [d |-> d, procs |-> ps, raised |-> FALSE]
    ELSE kill_pass_no_kill(IF is_alive(ps, snap[Head(keys)].Process)
                           THEN d ELSE DictDel(d, Head(keys)),
                           snap, ps, Tail(keys), fails)

\* kill_children, lines 655-676: one round of the forced kill over a copy
\* of the map: the entry of a dead child is deleted, a live child is sent
\* SIGKILL; for the pids in fails os.kill raises OSError, which is logged.
\* The signal module of Windows has no SIGKILL: the expression raises
\* AttributeError at the first live child.
RECURSIVE kill_pass(_, _, _, _, _)
kill_pass(d, snap, ps, keys, fails) ==
    IF keys = <<>> THEN [d |-> d, procs |-> ps, raised |-> FALSE]
    ELSE LET pid == Head(keys)
             h == snap[pid].Process
         IN IF ~is_alive(ps, h)
            THEN kill_pass(DictDel(d, pid), snap, ps, Tail(keys), fails)
            ELSE IF is_windows
            THEN [d |-> d, procs |-> ps, raised |-> TRUE]
            ELSE kill_pass(d, snap,
                           IF pid \in fails THEN ps ELSE Deliver(ps, h, "SIGKILL"),
                           Tail(keys), fails)

\* mutant: kill_children without the test of os.getpid() against _pid
kc_start_any_pid(pidnow) ==
    IF is_windows /\ ~main_process
    THEN [next |-> "return", how |-> "not_main"]
    ELSE [next |-> "term", how |-> "owner"]

\* kill_children, lines 588-604, after the two dispositions are set to
\* SIG_IGN: what a call in the process with the pid pidnow does next.
\* signal.default_int_handler raises when it is called (KeyboardInterrupt,
\* or TypeError for the missing frame argument).
kc_start(pidnow) ==
    IF pidnow /= _pid
    THEN IF sigterm_handler = "callable"
         THEN [next |-> "return", how |-> "delegated"]
         ELSE IF sigterm_handler /= "None"
         THEN [next |-> "raise", how |-> "default_int_handler"]
         ELSE [next |-> "return", how |-> "None"]
    ELSE IF is_windows /\ ~main_process
    THEN [next |-> "return", how |-> "not_main"]
    ELSE [next |-> "term", how |-> "owner"]

\* mutant: kill_children gives up without a warning when the retries are
\* used up
kc_finish_silent(d, retry) ==
    IF Cardinality(DOMAIN d.m) = 0 THEN [next |-> "return", how |-> "empty"]
    ELSE IF retry >= 0 THEN [next |-> "recurse", how |-> "retry"]
    ELSE [next |-> "return", how |-> "empty"]

\* kill_children, lines 678-703: with children left in the map the call
\* recurses while retry >= 0, and logs the warning and returns otherwise
kc_finish(d, retry) ==
    IF Cardinality(DOMAIN d.m) = 0 THEN [next |-> "return", how |-> "empty"]
    ELSE IF retry >= 0 THEN [next |-> "recurse", how |-> "retry"]
    ELSE [next |-> "return", how |-> "warning"]

\* the frame of one kill_children invocation; retry0 is the retry count the
\* top-level call was given, which the recursive invocations pass on
KcFrame(sig, retry, retry0, handler) ==
    [fn |-> "kill_children", pc |-> "start", sig |-> sig, retry |-> retry,
     retry0 |-> retry0, handler |-> handler, kill_iterations |-> 2,
     expired |-> FALSE]

\* an exception that leaves check_children, raised in it, in the
\* restart_process it has called or in a signal handler that ran meanwhile:
\* in run an OSError is caught (line 561, break) and anything else leaves
\* run; a check_children called by the host passes the exception on
Unwind(exc) ==
    IF stack[1].fn = "run"
    THEN /\ stack' = <<>>
         /\ lastOp' = [op |-> "run", how |-> exc, at |-> "check_children",
                       outcome |-> IF exc = "OSError" THEN "return" ELSE "raise"]
    ELSE /\ stack' = <<>>
         /\ lastOp' = [op |-> "check_children", outcome |-> "raise", how |-> exc,
                       dead0 |-> stack[1].dead0, restarted |-> stack[1].restarted]

\* the end of a kill_children call. A handler that returns leaves the
\* interrupted sleep of run to go on or to fail with EINTR, and lets an
\* interrupted check_children or restart_process go on where it was; an
\* exception of the handler comes out of time.sleep in run, where an OSError
\* is caught (break) and anything else leaves run, or out of the statement
\* of check_children or restart_process that was interrupted.
KcEnd(outcome, how) ==
    LET res == [op |-> "kill_children", outcome |-> outcome, how |-> how,
                by |-> getpid,
                args |-> IF how = "delegated" THEN Top.sig ELSE "-",
                retry |-> IF how = "warning" THEN Top.retry ELSE 0]
    IN IF ~Top.handler
       THEN stack' = Pop /\ lastOp' = res
       ELSE IF outcome = "return"
       THEN /\ stack' = [Pop EXCEPT ![Len(stack) - 1].interrupted = TRUE]
            /\ lastOp' = res
       ELSE IF Pop[Len(stack) - 1].fn /= "run"
       THEN Unwind(how)
       ELSE IF Pop[Len(stack) - 1].asynchronous
       THEN stack' = Pop /\ lastOp' = res
       ELSE /\ stack' = <<>>
            /\ lastOp' = [op |-> "run", how |-> how, at |-> "sleep",
                          outcome |-> IF how = "OSError" THEN "return" ELSE "raise"]

\* ProcessManager.kill_children(*args, retry=...), called by the host of the
\* owner, or in a forked child that has inherited the ProcessManager
KillChildrenCall(sig, retry) ==
    /\ Idle
    /\ nkills < MaxKillCalls
    /\ nkills' = nkills + 1
    /\ stack' = Append(stack, KcFrame(sig, retry, retry, FALSE))
    /\ lastOp' = NoOp
    /\ UNCHANGED <<is_windows, main_process, getpid, process_map, map_order,
                   procs, nstarted, restart_processes, sigterm_handler, disp>>

\* SIGTERM or SIGINT arrives while run sleeps and kill_children is the
\* handler of the signal
Signal(sig) ==
    /\ getpid = _pid
    /\ Running("run")
    /\ Top.pc = "sleep"
    /\ disp[sig] = "kill_children"
    /\ nkills < MaxKillCalls
    /\ nkills' = nkills + 1
    /\ stack' = Append(stack, KcFrame(sig, DefaultRetry, DefaultRetry, TRUE))
    /\ lastOp' = NoOp
    /\ UNCHANGED <<is_windows, main_process, getpid, process_map, map_order,
                   procs, nstarted, restart_processes, sigterm_handler, disp>>

\* os.fork(): from here on the model follows the child, which has a copy of
\* the ProcessManager and of the dispositions and runs its own code
Fork ==
    /\ HostMayCall
    /\ ~is_windows
    /\ getpid' = "child"
    /\ stack' = <<>>
    /\ lastOp' = NoOp
    /\ UNCHANGED <<is_windows, main_process, process_map, map_order, procs,
                   nstarted, restart_processes, sigterm_handler, disp, nkills>>

\* kill_children, lines 584-604
KcStart ==
    /\ Running("kill_children")
    /\ Top.pc = "start"
    /\ disp' = [s \in Sigs |-> "SIG_IGN"]
    /\ LET r == kc_start(getpid)
       IN IF r.next = "term"
          THEN /\ stack' = ReplaceTop([Top EXCEPT !.pc = "term"])
               /\ lastOp' = NoOp
          ELSE KcEnd(r.next, r.how)
    /\ UNCHANGED <<is_windows, main_process, getpid, process_map, map_order,
                   procs, nstarted, restart_processes, sigterm_handler, nkills>>

\* kill_children, lines 605-635: termination is requested of every child
KcTerm ==
    /\ Running("kill_children")
    /\ Top.pc = "term"
    /\ \E failpid \in {0} \cup DOMAIN process_map :
         LET keys == LiveKeys(map_order)
             r == IF is_windows
                  THEN term_windows(TheDict, process_map, procs, keys, failpid)
                  ELSE term_posix(TheDict, process_map, procs, keys, Top.sig, failpid)
         IN /\ failpid /= 0 => r.raised
            /\ process_map' = r.d.m
            /\ map_order' = r.d.o
            /\ procs' = Keep(r.d.m, r.procs)
            /\ IF r.raised
               THEN KcEnd("raise", "OSError")
               ELSE /\ stack' = ReplaceTop([Top EXCEPT !.pc = "wait", !.expired = FALSE])
                    /\ lastOp' = NoOp
    /\ UNCHANGED <<is_windows, main_process, getpid, nstarted, restart_processes,
                   sigterm_handler, disp, nkills>>

\* time.time() reaches end_time (at once when wait_for_kill is 0)
KcTick ==
    /\ Running("kill_children")
    /\ Top.pc = "wait"
    /\ ~Top.expired
    /\ stack' = ReplaceTop([Top EXCEPT !.expired = TRUE])
    /\ UNCHANGED <<is_windows, main_process, getpid, process_map, map_order,
                   procs, nstarted, restart_processes, sigterm_handler, disp,
                   lastOp, nkills>>

\* mutant: the graceful wait goes on until the map is empty
wait_ignores_deadline(d, expired) ==
    Cardinality(DOMAIN d.m) /= 0

\* kill_children, line 638: the test of the graceful wait,
\* while self._process_map and time.time() < end_time
wait_goes_on(d, expired) ==
    Cardinality(DOMAIN d.m) /= 0 /\ ~expired

\* kill_children, lines 638-652: the test of the while loop and one round
KcWait ==
    /\ Running("kill_children")
    /\ Top.pc = "wait"
    /\ IF wait_goes_on(TheDict, Top.expired)
       THEN LET d == join_pass(TheDict, process_map, procs, LiveKeys(map_order))
            IN /\ process_map' = d.m
               /\ map_order' = d.o
               /\ procs' = Keep(d.m, procs)
               /\ UNCHANGED stack
       ELSE /\ stack' = ReplaceTop([Top EXCEPT !.pc = "kill", !.kill_iterations = 2])
            /\ UNCHANGED <<process_map, map_order, procs>>
    /\ lastOp' = NoOp
    /\ UNCHANGED <<is_windows, main_process, getpid, nstarted, restart_processes,
                   sigterm_handler, disp, nkills>>

\* kill_children, lines 653-676: the test of the while loop and one round,
\* in which os.kill raises OSError for the live children with a pid in fails
KcKillWith(fails) ==
    /\ Running("kill_children")
    /\ Top.pc = "kill"
    /\ IF Top.kill_iterations >= 0
       THEN LET r == kill_pass(TheDict, process_map, procs, LiveKeys(map_order), fails)
            IN /\ \A p \in fails : is_alive(procs, process_map[p].Process)
               /\ process_map' = r.d.m
               /\ map_order' = r.d.o
               /\ procs' = Keep(r.d.m, r.procs)
               /\ IF r.raised
                  THEN KcEnd("raise", "AttributeError")
                  ELSE /\ stack' = ReplaceTop([Top EXCEPT !.kill_iterations = @ - 1])
                       /\ lastOp' = NoOp
       ELSE /\ fails = {}
            /\ stack' = ReplaceTop([Top EXCEPT !.pc = "finish"])
            /\ lastOp' = NoOp
            /\ UNCHANGED <<process_map, map_order, procs>>
    /\ UNCHANGED <<is_windows, main_process, getpid, nstarted, restart_processes,
                   sigterm_handler, disp, nkills>>

KcKill ==
    \E fails \in SUBSET (DOMAIN process_map) : KcKillWith(fails)

\* kill_children, lines 678-703
KcFinish ==
    /\ Running("kill_children")
    /\ Top.pc = "finish"
    /\ LET r == kc_finish(TheDict, Top.retry)
       IN IF r.next = "recurse"
          THEN /\ stack' = ReplaceTop(KcFrame(Top.sig, Top.retry - 1, Top.retry0, Top.handler))
               /\ lastOp' = NoOp
          ELSE KcEnd(r.next, r.how)
    /\ UNCHANGED <<is_windows, main_process, getpid, process_map, map_order,
                   procs, nstarted, restart_processes, sigterm_handler, disp, nkills>>

(* ------- restart_process, statement by statement, under signals ------- *)

\* the frame of a restart_process call made by check_children: the pid it
\* was called with, the Process object h it has started (0: none yet) and
\* the record add_process is going to store for it, and whether a signal
\* handler has run during the call
RpFrame(pid) ==
    [fn |-> "restart_process", pc |-> "start", pid |-> pid, h |-> 0,
     newpid |-> 0, rec |-> <<>>, interrupted |-> FALSE]

\* the end of a restart_process call made by check_children
RpEnd(outcome, exc) ==
    IF outcome = "return"
    THEN stack' = Pop /\ lastOp' = NoOp
    ELSE Unwind(exc)

\* check_children, lines 575-578, and restart_process, line 478: the loop
\* comes to a dead child and calls restart_process, which goes on when
\* restarting is enabled
CcRestartEnter ==
    /\ Running("check_children")
    /\ \E n \in IterNext(TheDict, Top.it) :
         /\ n.kind = "yield"
         /\ ~is_alive(procs, process_map[n.pid].Process)
         /\ LET f == [Top EXCEPT !.it = n.it,
                                 !.restarted = @ \cup {process_map[n.pid].Process}]
            IN stack' = IF restart_processes = FALSE
                        THEN ReplaceTop(f)
                        ELSE ReplaceTop(f) \o <<RpFrame(n.pid)>>
    /\ lastOp' = NoOp
    /\ UNCHANGED <<is_windows, main_process, getpid, process_map, map_order,
                   procs, nstarted, restart_processes, sigterm_handler, disp, nkills>>

\* restart_process, lines 479-498, and add_process up to line 465: the
\* entry of pid is read (KeyError when it is gone) and the new process is
\* started; it is alive and not yet in the map
RpStart ==
    /\ Running("restart_process")
    /\ Top.pc = "start"
    /\ IF Top.pid \notin DOMAIN process_map
       THEN /\ RpEnd("raise", "KeyError")
            /\ UNCHANGED <<procs, nstarted, disp>>
       ELSE \E np \in StartPids(procs) :
              /\ disp' = restart_disp(TheDict, Top.pid, np)
              /\ IF np = 0
                 THEN /\ RpEnd("raise", "OSError")
                      /\ UNCHANGED <<procs, nstarted>>
                 ELSE LET old == process_map[Top.pid]
                          h == nstarted + 1
                      IN /\ procs' = NewProc(procs, h, np)
                         /\ nstarted' = h
                         /\ stack' = ReplaceTop(
                                [Top EXCEPT !.pc = "insert", !.h = h, !.newpid = np,
                                            !.rec = child_record(old.tgt, old.args,
                                                        restart_kwargs(old), h)])
                         /\ lastOp' = NoOp
    /\ UNCHANGED <<is_windows, main_process, getpid, process_map, map_order,
                   restart_processes, sigterm_handler, nkills>>

\* add_process, lines 466-472: the record of the started process is stored
\* under its pid
RpInsert ==
    /\ Running("restart_process")
    /\ Top.pc = "insert"
    /\ LET d == DictSet(TheDict, Top.newpid, Top.rec)
       IN /\ process_map' = d.m
          /\ map_order' = d.o
          /\ procs' = Keep(d.m, procs)
    /\ stack' = ReplaceTop([Top EXCEPT !.pc = "del"])
    /\ lastOp' = NoOp
    /\ UNCHANGED <<is_windows, main_process, getpid, nstarted, restart_processes,
                   sigterm_handler, disp, nkills>>

\* restart_process, line 500: del self._process_map[pid]
RpDel ==
    /\ Running("restart_process")
    /\ Top.pc = "del"
    /\ IF Top.pid \notin DOMAIN process_map
       THEN /\ RpEnd("raise", "KeyError")
            /\ UNCHANGED <<process_map, map_order, procs>>
       ELSE LET d == DictDel(TheDict, Top.pid)
            IN /\ process_map' = d.m
               /\ map_order' = d.o
               /\ procs' = Keep(d.m, procs)
               /\ RpEnd("return", "-")
    /\ UNCHANGED <<is_windows, main_process, getpid, nstarted, restart_processes,
                   sigterm_handler, disp, nkills>>

\* SIGTERM or SIGINT arrives between two statements of check_children or of
\* the restart_process it has called, and kill_children is the handler of
\* the signal: the handler runs on the same thread, on top of them
SignalDuring(sig) ==
    /\ getpid = _pid
    /\ Running("check_children") \/ Running("restart_process")
    /\ disp[sig] = "kill_children"
    /\ nkills < MaxKillCalls
    /\ nkills' = nkills + 1
    /\ stack' = Append(stack, KcFrame(sig, DefaultRetry, DefaultRetry, TRUE))
    /\ lastOp' = NoOp
    /\ UNCHANGED <<is_windows, main_process, getpid, process_map, map_order,
                   procs, nstarted, restart_processes, sigterm_handler, disp>>

(* ---------------- send_signal_to_processes ---------------- *)

\* the signals the host sends to the children: one of the two that Windows
\* delivers to the children by itself (line 507), and another one
SendSigs == {"SIGTERM", "SIGUSR1"}

\* what os.kill(pid, sig) can do: succeed, or raise OSError with one of
\* these values of errno
KillResults == {"ok", "ESRCH", "EACCES", "EPERM"}

\* os.kill(pid, what) that succeeds: the signal reaches the live process
\* that has the pid
DeliverPid(ps, pid, what) ==
    [h \in DOMAIN ps |->
        IF ps[h].alive /\ ps[h].pid = pid
        THEN [ps[h] EXCEPT !.sigs = @ \cup {what}] ELSE ps[h]]

\* send_signal_to_processes, lines 520-528: the loop over the keys of a copy
\* of the map, where os.kill(pid, signal_) does errs[pid]; n counts the pids
\* the loop has dealt with
RECURSIVE send_loop(_, _, _, _, _, _)
send_loop(d, ps, keys, sig, errs, n) ==
    IF keys = <<>> THEN [d |-> d, procs |-> ps, raised |-> FALSE, n |-> n]
    ELSE LET pid == Head(keys)
         IN IF errs[pid] = "ok"
            THEN send_loop(d, DeliverPid(ps, pid, sig), Tail(keys), sig, errs, n + 1)
            ELSE IF errs[pid] \in {"ESRCH", "EACCES"}
            THEN send_loop(DictDel(d, pid), ps, Tail(keys), sig, errs, n + 1)
            ELSE [d |-> d, procs |-> ps, raised |-> TRUE, n |-> n]

\* mutant: EPERM is taken for a dead process as well
send_signal_eperm_is_dead(d, ps, sig, errs) ==
    IF is_windows /\ sig \in Sigs
    THEN [d |-> d, procs |-> ps, raised |-> FALSE, n |-> 0]
    ELSE send_loop(d, ps, LiveKeys(d.o), sig,
                   [p \in DOMAIN errs |->
                       IF errs[p] = "EPERM" THEN "EACCES" ELSE errs[p]], 0)

\* send_signal_to_processes(signal_), lines 505-528
send_signal_to_processes(d, ps, sig, errs) ==
    IF is_windows /\ sig \in Sigs
    THEN [d |-> d, procs |-> ps, raised |-> FALSE, n |-> 0]
    ELSE send_loop(d, ps, LiveKeys(d.o), sig, errs, 0)

\* ProcessManager.send_signal_to_processes(sig), called by the host, when
\* os.kill(pid, sig) does errs[pid]: os.kill does not fail with ESRCH for
\* the pid of a process that is alive
SendSignalWith(sig, errs) ==
    /\ HostMayCall
    /\ \A pid \in DOMAIN process_map :
          (\E h \in DOMAIN procs : procs[h].alive /\ procs[h].pid = pid)
              => errs[pid] /= "ESRCH"
    /\ LET r == send_signal_to_processes(TheDict, procs, sig, errs)
       IN /\ process_map' = r.d.m
          /\ map_order' = r.d.o
          /\ procs' = Keep(r.d.m, r.procs)
          /\ lastOp' = [op |-> "send_signal_to_processes",
                        outcome |-> IF r.raised THEN "raise" ELSE "return",
                        sig |-> sig, errs |-> errs]
    /\ UNCHANGED <<is_windows, main_process, getpid, nstarted, restart_processes,
                   sigterm_handler, disp, stack, nkills>>

SendSignal(sig) ==
    \E errs \in [DOMAIN process_map -> KillResults] : SendSignalWith(sig, errs)

(* ---------------- default_signals ---------------- *)

\* the lists of signals default_signals is entered with
SignalLists ==
    {<<>>, <<"SIGINT">>, <<"SIGTERM">>, <<"SIGINT", "SIGTERM">>,
     <<"SIGTERM", "SIGINT">>}

\* with default_signals(*signals): the scope is entered
DsEnter(signals, fails) ==
    /\ HostMayCall
    /\ fails \subseteq {signals[i] : i \in DOMAIN signals}
    /\ LET r == ds_swap(disp, <<>>, signals, fails)
       IN /\ disp' = r.d
          /\ stack' = <<[fn |-> "default_signals", before |-> disp,
                         old |-> r.old, skipped |-> fails]>>
    /\ lastOp' = NoOp
    /\ UNCHANGED <<is_windows, main_process, getpid, process_map, map_order,
                   procs, nstarted, restart_processes, sigterm_handler, nkills>>

\* the body of the with statement ends, by returning or by raising
DsExit(body_raises) ==
    /\ Running("default_signals")
    /\ LET r == ds_exit(disp, Top.old, body_raises)
       IN /\ disp' = r.d
          /\ lastOp' = [op |-> "default_signals",
                        body |-> IF body_raises THEN "raised" ELSE "returned",
                        outcome |-> IF r.raised THEN "raise" ELSE "return",
                        before |-> Top.before, old |-> Top.old,
                        skipped |-> Top.skipped, calls |-> r.calls]
    /\ stack' = Pop
    /\ UNCHANGED <<is_windows, main_process, getpid, process_map, map_order,
                   procs, nstarted, restart_processes, sigterm_handler, nkills>>

(* ---------------- SignalHandlingMultiprocessingProcess ---------------- *)

\* the end of _handle_signals: the child exits, or an exception leaves the
\* handler
HsEnd(outcome, how) ==
    /\ stack' = <<>>
    /\ lastOp' = [op |-> "_handle_signals", outcome |-> outcome, how |-> how,
                  has_psutil |-> Top.has_psutil]

\* SIGINT or SIGTERM arrives in a signal-handling child, in which
\* __setup_signals (lines 846-848) has made _handle_signals the handler of
\* both; HAS_PSUTIL (lines 41-44) is what the import of psutil gave. Python
\* runs the handler of a signal between two bytecodes of the main thread,
\* also between those of a handler that is running.
ChildSignal(signum, has_psutil) ==
    /\ getpid /= _pid
    /\ Len(stack) < MaxNesting
    /\ Idle \/ (Running("_handle_signals") /\ has_psutil = Top.has_psutil)
    /\ lastOp = NoOp
    /\ disp[signum] = "_handle_signals"
    /\ stack' = Append(stack,
                       [fn |-> "_handle_signals", pc |-> "start", signum |-> signum,
                        has_psutil |-> has_psutil, children |-> <<>>])
    /\ UNCHANGED <<is_windows, main_process, getpid, process_map, map_order,
                   procs, nstarted, restart_processes, sigterm_handler, disp,
                   nkills, lastOp>>

\* the handles of the processes ps in increasing order
RECURSIVE HandlesFrom(_, _)
HandlesFrom(ps, h) ==
    IF \A i \in DOMAIN ps : i < h THEN <<>>
    ELSE IF h \in DOMAIN ps THEN <<h>> \o HandlesFrom(ps, h + 1)
    ELSE HandlesFrom(ps, h + 1)

\* _handle_signals, line 851: SIGTERM is ignored from now on
HsIgnoreTerm ==
    /\ Running("_handle_signals")
    /\ Top.pc = "start"
    /\ disp' = [disp EXCEPT !["SIGTERM"] = "SIG_IGN"]
    /\ stack' = ReplaceTop([Top EXCEPT !.pc = "ignore_int"])
    /\ UNCHANGED <<is_windows, main_process, getpid, process_map, map_order,
                   procs, nstarted, restart_processes, sigterm_handler, nkills,
                   lastOp>>

\* _handle_signals, lines 852-862: SIGINT is ignored from now on; with
\* psutil, process.children(recursive=True) lists the descendants that
\* exist now
HsStart ==
    /\ Running("_handle_signals")
    /\ Top.pc = "ignore_int"
    /\ disp' = [disp EXCEPT !["SIGINT"] = "SIG_IGN"]
    /\ stack' = ReplaceTop([Top EXCEPT
                    !.pc = IF Top.has_psutil THEN "is_running" ELSE "exit",
                    !.children = IF Top.has_psutil THEN HandlesFrom(procs, 1)
                                 ELSE <<>>])
    /\ UNCHANGED <<is_windows, main_process, getpid, process_map, map_order,
                   procs, nstarted, restart_processes, sigterm_handler, nkills,
                   lastOp>>

\* _handle_signals, lines 863-864: the test of the next descendant
HsIsRunning ==
    /\ Running("_handle_signals")
    /\ Top.pc = "is_running"
    /\ stack' = ReplaceTop(
           IF Top.children = <<>> THEN [Top EXCEPT !.pc = "exit"]
           ELSE IF is_alive(procs, Head(Top.children))
           THEN [Top EXCEPT !.pc = "terminate"]
           ELSE [Top EXCEPT !.children = Tail(@)])
    /\ UNCHANGED <<is_windows, main_process, getpid, process_map, map_order,
                   procs, nstarted, restart_processes, sigterm_handler, disp,
                   nkills, lastOp>>

\* _handle_signals, line 865: child.terminate() sends SIGTERM to the
\* descendant; psutil raises NoSuchProcess when the process is gone, which
\* nothing in the handler catches
HsTerminate ==
    /\ Running("_handle_signals")
    /\ Top.pc = "terminate"
    /\ IF is_alive(procs, Head(Top.children))
       THEN /\ procs' = Deliver(procs, Head(Top.children), "terminate")
            /\ stack' = ReplaceTop([Top EXCEPT !.pc = "is_running",
                                               !.children = Tail(@)])
            /\ UNCHANGED lastOp
       ELSE /\ HsEnd("raise", "NoSuchProcess")
            /\ UNCHANGED procs
    /\ UNCHANGED <<is_windows, main_process, getpid, process_map, map_order,
                   nstarted, restart_processes, sigterm_handler, disp, nkills>>

\* _handle_signals, line 866: sys.exit(salt.defaults.exitcodes.EX_OK)
HsExit ==
    /\ Running("_handle_signals")
    /\ Top.pc = "exit"
    /\ HsEnd("exit", "EX_OK")
    /\ UNCHANGED <<is_windows, main_process, getpid, process_map, map_order,
                   procs, nstarted, restart_processes, sigterm_handler, disp,
                   nkills>>

\* ProcessManager.__init__, lines 351-364: the map is empty, restarting is
\* on, the SIGTERM disposition of the process is captured. SIGINT has
\* Python's own handler.
SupInit ==
    /\ is_windows \in BOOLEAN
    /\ main_process \in BOOLEAN
    /\ (~is_windows => main_process)
    /\ getpid = _pid
    /\ process_map = <<>>
    /\ map_order = <<>>
    /\ procs = <<>>
    /\ nstarted = 0
    /\ restart_processes = TRUE
    /\ sigterm_handler \in Handlers
    /\ disp = [s \in Sigs |-> IF s = "SIGTERM" THEN sigterm_handler ELSE "callable"]
    /\ stack = <<>>
    /\ nkills = 0
    /\ lastOp = NoOp

vars == <<poolvars, supvars>>

\* the pool while the ProcessManager is modelled, and conversely
PoolUnused ==
    /\ num_threads = 1 /\ queue_size = 0 /\ job_queue = <<>>
    /\ workers = [w \in 1..1 |-> [st |-> "get", task |-> NoTask]]
    /\ fired = <<>> /\ taken = 0 /\ completed = 0

SupUnused ==
    /\ is_windows = FALSE /\ main_process = TRUE /\ getpid = _pid
    /\ process_map = <<>> /\ map_order = <<>> /\ procs = <<>> /\ nstarted = 0
    /\ restart_processes = TRUE /\ sigterm_handler = "SIG_DFL"
    /\ disp = [s \in Sigs |-> "SIG_DFL"]
    /\ stack = <<>> /\ nkills = 0 /\ lastOp = NoOp

\* Spec: the registry and the supervision loop of a ProcessManager made in a
\* process with the default SIGTERM disposition, with every kind of
\* add_process call
Init == SupInit /\ main_process /\ sigterm_handler = "SIG_DFL" /\ PoolUnused

Next ==
    \/ UNCHANGED poolvars /\ \E c \in AddCalls : AddProcess(c.tgt, c.args, c.kwargs)
    \/ UNCHANGED poolvars /\ \E p \in Pids : RestartProcess(p)
    \/ UNCHANGED poolvars /\ StopRestarting
    \/ UNCHANGED poolvars /\ \E h \in DOMAIN procs : ChildDies(h)
    \/ UNCHANGED poolvars /\ CheckChildrenCall
    \/ UNCHANGED poolvars /\ CheckChildrenStep
    \/ UNCHANGED poolvars /\ RunCall(FALSE)
    \/ UNCHANGED poolvars /\ RunInstall
    \/ UNCHANGED poolvars /\ RunCheck
    \/ UNCHANGED poolvars /\ RunSleep
    \/ UNCHANGED poolvars /\ RunTest

Spec == Init /\ [][Next]_vars

\* SpecShutdown: the supervision loop and the shutdown, with one kind of
\* add_process call; on Windows, where nothing is forked, with the default
\* SIGTERM disposition
InitShutdown ==
    SupInit /\ (is_windows => sigterm_handler = "SIG_DFL") /\ PoolUnused

NextShutdown ==
    \/ UNCHANGED poolvars /\ \E c \in LeanCalls : AddProcess(c.tgt, c.args, c.kwargs)
    \/ UNCHANGED poolvars /\ StopRestarting
    \/ UNCHANGED poolvars /\ \E h \in DOMAIN procs : ChildDies(h)
    \/ UNCHANGED poolvars /\ CheckChildrenStep
    \/ UNCHANGED poolvars /\ \E a \in BOOLEAN : RunCall(a)
    \/ UNCHANGED poolvars /\ RunInstall
    \/ UNCHANGED poolvars /\ RunCheck
    \/ UNCHANGED poolvars /\ RunSleep
    \/ UNCHANGED poolvars /\ RunTest
    \/ UNCHANGED poolvars /\ \E g \in KillArgs, r \in RetryIn : KillChildrenCall(g, r)
    \/ UNCHANGED poolvars /\ \E g \in Sigs : Signal(g)
    \/ UNCHANGED poolvars /\ Fork
    \/ UNCHANGED poolvars /\ KcStart
    \/ UNCHANGED poolvars /\ KcTerm
    \/ UNCHANGED poolvars /\ KcTick
    \/ UNCHANGED poolvars /\ KcWait
    \/ UNCHANGED poolvars /\ KcKill
    \/ UNCHANGED poolvars /\ KcFinish

SpecShutdown == InitShutdown /\ [][NextShutdown]_vars

\* SpecKill: kill_children called by the host of the owner, whose children
\* die when they like
InitKill ==
    SupInit /\ sigterm_handler = "SIG_DFL" /\ PoolUnused

NextKill ==
    \/ UNCHANGED poolvars /\ \E c \in LeanCalls : AddProcess(c.tgt, c.args, c.kwargs)
    \/ UNCHANGED poolvars /\ \E h \in DOMAIN procs : ChildDies(h)
    \/ UNCHANGED poolvars /\ \E g \in KillArgs, r \in RetryIn : KillChildrenCall(g, r)
    \/ UNCHANGED poolvars /\ KcStart
    \/ UNCHANGED poolvars /\ KcTerm
    \/ UNCHANGED poolvars /\ KcTick
    \/ UNCHANGED poolvars /\ KcWait
    \/ UNCHANGED poolvars /\ KcKill
    \/ UNCHANGED poolvars /\ KcFinish

SpecKill == InitKill /\ [][NextKill]_vars

\* a step of a kill_children invocation
KcStep == KcStart \/ KcTerm \/ KcTick \/ KcWait \/ KcKill \/ KcFinish

\* FairSpecKill: the thread that runs kill_children goes on running, and the
\* clock goes on until it reaches the deadline of the graceful wait
FairSpecKill ==
    SpecKill /\ WF_vars(UNCHANGED poolvars /\ KcStep)

\* SpecInterrupt: the supervision loop of the owner, in which the signal
\* that kill_children handles arrives during the sleep of run, between the
\* rounds of check_children or between the statements of restart_process
InitInterrupt ==
    SupInit /\ sigterm_handler = "SIG_DFL" /\ PoolUnused

NextInterrupt ==
    \/ UNCHANGED poolvars /\ \E c \in LeanCalls : AddProcess(c.tgt, c.args, c.kwargs)
    \/ UNCHANGED poolvars /\ \E h \in DOMAIN procs : ChildDies(h)
    \/ UNCHANGED poolvars /\ \E a \in BOOLEAN : RunCall(a)
    \/ UNCHANGED poolvars /\ RunInstall
    \/ UNCHANGED poolvars /\ RunCheck
    \/ UNCHANGED poolvars /\ RunSleep
    \/ UNCHANGED poolvars /\ RunTest
    \/ UNCHANGED poolvars /\ CheckChildrenStep
    \/ UNCHANGED poolvars /\ CcRestartEnter
    \/ UNCHANGED poolvars /\ RpStart
    \/ UNCHANGED poolvars /\ RpInsert
    \/ UNCHANGED poolvars /\ RpDel
    \/ UNCHANGED poolvars /\ \E g \in Sigs : Signal(g)
    \/ UNCHANGED poolvars /\ \E g \in Sigs : SignalDuring(g)
    \/ UNCHANGED poolvars /\ KcStart
    \/ UNCHANGED poolvars /\ KcTerm
    \/ UNCHANGED poolvars /\ KcTick
    \/ UNCHANGED poolvars /\ KcWait
    \/ UNCHANGED poolvars /\ KcKill
    \/ UNCHANGED poolvars /\ KcFinish

SpecInterrupt == InitInterrupt /\ [][NextInterrupt]_vars

\* SpecPool: the ThreadPool, its submitter and its worker threads
InitPool == PoolInit /\ SupUnused

NextPool ==
    \/ UNCHANGED supvars /\ \E k \in TaskKinds : fire_async(k)
    \/ UNCHANGED supvars /\ \E w \in DOMAIN workers : thread_get(w)
    \/ UNCHANGED supvars /\ \E w \in DOMAIN workers : thread_call(w)

SpecPool == InitPool /\ [][NextPool]_vars

\* SpecSignals: default_signals around a body, in a process with any
\* dispositions of the two signals
InitSignals ==
    /\ PoolUnused
    /\ is_windows = FALSE /\ main_process = TRUE /\ getpid = _pid
    /\ process_map = <<>> /\ map_order = <<>> /\ procs = <<>> /\ nstarted = 0
    /\ restart_processes = TRUE /\ sigterm_handler = "SIG_DFL"
    /\ disp \in [Sigs -> Handlers]
    /\ stack = <<>> /\ nkills = 0 /\ lastOp = NoOp

NextSignals ==
    \/ UNCHANGED poolvars /\ \E g \in SignalLists, f \in SUBSET Sigs : DsEnter(g, f)
    \/ UNCHANGED poolvars /\ \E b \in BOOLEAN : DsExit(b)

SpecSignals == InitSignals /\ [][NextSignals]_vars

\* SpecSend: signals sent to the recorded children by the host
InitSend == SupInit /\ main_process /\ sigterm_handler = "SIG_DFL" /\ PoolUnused

NextSend ==
    \/ UNCHANGED poolvars /\ \E c \in LeanCalls : AddProcess(c.tgt, c.args, c.kwargs)
    \/ UNCHANGED poolvars /\ \E h \in DOMAIN procs : ChildDies(h)
    \/ UNCHANGED poolvars /\ \E g \in SendSigs : SendSignal(g)

SpecSend == InitSend /\ [][NextSend]_vars

\* SpecChild: a signal-handling child process with up to MaxPid
\* descendants, which exit when they like
InitChild ==
    /\ PoolUnused
    /\ is_windows \in BOOLEAN /\ main_process = FALSE /\ getpid = "child"
    /\ process_map = <<>> /\ map_order = <<>> /\ nstarted = 0
    /\ \E n \in 0..MaxPid :
          procs = [h \in 1..n |-> [pid |-> h, alive |-> TRUE, sigs |-> {}]]
    /\ restart_processes = TRUE /\ sigterm_handler = "SIG_DFL"
    /\ disp = [s \in Sigs |-> "_handle_signals"]
    /\ stack = <<>> /\ nkills = 0 /\ lastOp = NoOp

NextChild ==
    \/ UNCHANGED poolvars /\ \E g \in Sigs, b \in BOOLEAN : ChildSignal(g, b)
    \/ UNCHANGED poolvars /\ \E h \in DOMAIN procs : ChildDies(h)
    \/ UNCHANGED poolvars /\ HsIgnoreTerm
    \/ UNCHANGED poolvars /\ HsStart
    \/ UNCHANGED poolvars /\ HsIsRunning
    \/ UNCHANGED poolvars /\ HsTerminate
    \/ UNCHANGED poolvars /\ HsExit

SpecChild == InitChild /\ [][NextChild]_vars

(* ---------------- claims about the signal-handling child ---------------- *)

\* C14: when _handle_signals has ended in a child that got SIGTERM or
\* SIGINT, the child has exited with the success exit code and, with
\* psutil, every descendant that is alive has been asked to terminate.
C14_ChildTerminatesDescendants ==
    lastOp.op = "_handle_signals" =>
        /\ lastOp.outcome = "exit" /\ lastOp.how = "EX_OK"
        /\ lastOp.has_psutil =>
              \A h \in DOMAIN procs :
                  procs[h].alive => "terminate" \in procs[h].sigs

\* C22: a signal that arrives once the handler has executed its first
\* statement never starts a second execution of the handler nested in the
\* first.
C22_HandlerNotReentered ==
    \A i, j \in DOMAIN stack :
        (i < j /\ stack[i].fn = "_handle_signals" /\ stack[i].pc /= "start") =>
            stack[j].fn /= "_handle_signals"

(* ---------------- claims about send_signal_to_processes ---------------- *)

\* the place in keys of the first pid for which os.kill fails with an errno
\* other than ESRCH and EACCES, Len(keys) + 1 when there is none
FirstOtherError(keys, errs) ==
    LET bad == {i \in DOMAIN keys : errs[keys[i]] \notin {"ok", "ESRCH", "EACCES"}}
    IN IF bad = {} THEN Len(keys) + 1
       ELSE CHOOSE i \in bad : \A j \in bad : i <= j

DsLeft(how) == lastOp.op = "default_signals" /\ lastOp.body = how

\* the signals whose disposition was saved and swapped to the default
Swapped(old) == {old[i].signum : i \in DOMAIN old}

\* C11: when the body inside default_signals has raised, every signal whose
\* disposition was swapped to the default has its saved disposition again
\* when the exception has left the scope, installed by no more than one call.
C11_RestoredWhenBodyRaises ==
    DsLeft("raised") =>
        \A s \in Swapped(lastOp.old) :
            disp[s] = lastOp.before[s] /\ lastOp.calls[s] <= 1

\* C12: when the body has returned, default_signals returns too; every
\* signal that was swapped has its saved disposition again, every signal
\* that was skipped has the disposition it had and was not touched.
C12_RestoredOnNormalExit ==
    DsLeft("returned") =>
        /\ lastOp.outcome = "return"
        /\ \A s \in Swapped(lastOp.old) :
              disp[s] = lastOp.before[s] /\ lastOp.calls[s] <= 1
        /\ \A s \in Sigs \ Swapped(lastOp.old) :
              disp[s] = lastOp.before[s] /\ lastOp.calls[s] = 0

(* ---------------- claims about the registry ---------------- *)

\* the handle, alive or dead, is recorded in the map under its own pid
Recorded(h) ==
    /\ h \in DOMAIN procs
    /\ procs[h].pid \in DOMAIN process_map
    /\ process_map[procs[h].pid].Process = h

\* C1: when add_process has returned a process handle, the pid of that
\* handle is a key of the process map and the record stored under it holds
\* the handle; nothing is left to happen after the return.
C1_AddProcessInsertsPid ==
    (lastOp.op = "add_process" /\ lastOp.outcome = "return") => Recorded(lastOp.val)

\* a second add_process call has returned, for a function with arguments
C1_Witness ==
    /\ lastOp.op = "add_process" /\ lastOp.outcome = "return"
    /\ Cardinality(DOMAIN process_map) = 2
    /\ Recorded(lastOp.val)
    /\ process_map[procs[lastOp.val].pid].tgt = "function"
    /\ Len(process_map[procs[lastOp.val].pid].args) = 3

\* two records describe the same job
SameJob(old, new) ==
    /\ new.tgt = old.tgt
    /\ new.args = old.args
    /\ new.kwargs = old.kwargs
    /\ new._opts = old._opts

\* a restart_process(p) call with restarting on, for a recorded pid, returns
RestartReturns(p) ==
    /\ restart_processes = TRUE
    /\ p \in DOMAIN process_map
    /\ RestartProcess(p)
    /\ lastOp'.outcome = "return"

\* C2: when restart_process(p) returns with restarting on, the map holds an
\* entry for the new child whose target, args, kwargs and opts are those of
\* the record that was stored under p, for every kind of target and also
\* when the record is itself the product of a restart.
C2_RestartKeepsRecord ==
    [][\A p \in Pids :
          RestartReturns(p) =>
              \E q \in DOMAIN process_map' :
                  /\ process_map'[q].Process = lastOp'.val
                  /\ SameJob(process_map[p], process_map'[q])]_vars

\* the steps of check_children and restart_process, from the host or from run
CheckOrRestartStep ==
    \/ \E p \in Pids : RestartProcess(p)
    \/ CheckChildrenCall
    \/ CheckChildrenStep
    \/ RunCheck

\* C3: once stop_restarting() has been called restarting stays off, and no
\* step of check_children or restart_process starts a child or changes the
\* process map, however many recorded children are dead.
C3_NoRestartAfterStop ==
    /\ [][restart_processes = FALSE => restart_processes' = FALSE]_vars
    /\ [][(restart_processes = FALSE /\ CheckOrRestartStep)
            => UNCHANGED <<process_map, map_order, procs, nstarted>>]_vars

\* restarting is off, both recorded children are dead, and restart_process
\* has just returned for one of them
C3_Witness ==
    /\ restart_processes = FALSE
    /\ lastOp.op = "restart_process" /\ lastOp.outcome = "return"
    /\ Cardinality(DOMAIN process_map) = 2
    /\ lastOp.pid \in DOMAIN process_map
    /\ AllRecordedDead

\* C4: with restarting stopped and run executing, a poll cycle that begins
\* when every recorded child is dead ends with the map empty (and run
\* returns): run never goes into a further cycle with such a map.
C4_EmptyWithinOnePollCycle ==
    \A i \in DOMAIN stack : stack[i].fn = "run" => ~stack[i].stale

\* C16: the step of run that sets up the signal handlers makes
\* kill_children the handler of exactly the signals whose disposition is
\* the default, and no step of run changes any other disposition.
C16_RunInstallsOnlyOverDefault ==
    [][Running("run") =>
          \A s \in Sigs :
              disp'[s] = IF Top.pc = "install" /\ stack' /= stack
                            /\ disp[s] = "SIG_DFL"
                         THEN "kill_children" ELSE disp[s]]_vars

\* run has installed kill_children for SIGTERM, which had the default
\* disposition, and has kept the handler that SIGINT had
C16_Witness ==
    /\ Running("run") /\ Top.pc = "check" /\ ~Top.stale /\ ~Top.interrupted
    /\ disp["SIGTERM"] = "kill_children"
    /\ disp["SIGINT"] = "callable"

\* C17: run ends only at the test after a sleep, with an empty process
\* map, or in a sleep that a signal has interrupted; a cycle that finds
\* children in the map after the sleep goes on to the next cycle, and
\* every cycle calls check_children and then sleeps.
C17_RunLeavesLoopWhenEmptyOrInterrupted ==
    [][/\ (lastOp'.op = "run" /\ lastOp' /= lastOp) =>
             \/ lastOp'.at = "test" /\ process_map = <<>>
             \/ lastOp'.at = "sleep"
       /\ (Running("run") /\ Top.pc = "test" /\ process_map /= <<>>
              /\ stack' /= stack) =>
             stack' /= <<>> /\ stack'[1].fn = "run" /\ stack'[1].pc = "check"
       /\ (Running("run") /\ Top.pc = "check" /\ stack' /= stack) =>
             stack' /= <<>> /\ stack'[1].fn = "run" /\ stack'[1].pc = "sleep"]_vars

\* C18: an add_process call in which the OS refuses to spawn the child
\* raises the error to its caller and leaves the process map as it was
\* before the call.
C18_FailedStartLeavesMap ==
    [][(lastOp'.op = "add_process" /\ lastOp'.start = "refused") =>
          /\ lastOp'.outcome = "raise"
          /\ process_map' = process_map
          /\ map_order' = map_order]_vars

\* a start has been refused while another child was in the map
C18_Witness ==
    /\ lastOp.op = "add_process" /\ lastOp.start = "refused"
    /\ lastOp.outcome = "raise"
    /\ process_map /= <<>>

\* C19: a check_children call with restarting enabled has called
\* restart_process for every recorded child that was dead when the call
\* started and for no child that is alive; with restarting disabled the
\* call changes nothing and restarts nothing.
C19_RestartsExactlyTheDead ==
    [][lastOp'.op = "check_children" =>
          /\ (lastOp'.how = "off" /\ lastOp' /= lastOp) =>
                /\ lastOp'.restarted = {}
                /\ UNCHANGED <<process_map, map_order, procs, disp, nstarted>>
          /\ lastOp'.how /= "off" =>
                /\ lastOp'.dead0 \subseteq lastOp'.restarted
                /\ \A h \in lastOp'.restarted : ~is_alive(procs', h)]_vars

\* a step in which restart_process, called by the host or by
\* check_children, has started a replacement
RestartStarted ==
    /\ nstarted' = nstarted + 1
    /\ \/ lastOp'.op = "restart_process"
       \/ Running("check_children")

\* C20: a restart_process that replaces a child removes exactly the entry
\* of the old pid and adds exactly one entry under a new pid, so that the
\* map has as many entries after it as before.
C20_RestartKeepsEntryCount ==
    [][RestartStarted =>
          /\ Cardinality(DOMAIN process_map') = Cardinality(DOMAIN process_map)
          /\ \E old \in DOMAIN process_map, new \in Pids \ DOMAIN process_map :
                DOMAIN process_map' = (DOMAIN process_map \ {old}) \cup {new}]_vars

\* C25: while a loop of the supervisor iterates the process map itself,
\* and not a copy of it, no entry is added to the map or deleted from it.
C25_NoMutationUnderLiveIteration ==
    [][Running("check_children") =>
          /\ process_map' = process_map
          /\ map_order' = map_order]_vars

\* every child that is alive is recorded in the process map under its pid
LiveChildrenRecorded ==
    \A h \in DOMAIN procs : procs[h].alive => Recorded(h)

\* the host calls restart_process for a child that is alive, against the
\* assumption of restart_process that the child is dead
RestartOfLiveChild ==
    /\ lastOp'.op = "restart_process"
    /\ nstarted' = nstarted + 1
    /\ lastOp'.pid \in DOMAIN process_map
    /\ is_alive(procs, process_map[lastOp'.pid].Process)

\* C28: no step drops a live child from the registry: when every child that
\* is alive is recorded in the process map, the same is true after any step
\* of the supervisor, also after a restart_process that has replaced a dead
\* child whose pid the OS has given to the new child.
C28_LiveChildrenStayRecorded ==
    [][(LiveChildrenRecorded /\ ~RestartOfLiveChild) => LiveChildrenRecorded']_vars

(* ---------------- claims about the shutdown ---------------- *)

\* a kill_children call made in the owner process has just returned
KillReturnedInOwner ==
    /\ lastOp.op = "kill_children"
    /\ lastOp.outcome = "return"
    /\ lastOp.by = _pid

\* the retries were used up and the warning with the survivors was logged
WarnedOutOfRetries == lastOp.how = "warning" /\ lastOp.retry < 0

\* C5 as stated: when a kill_children call made in the owner process
\* returns, the process map is empty, or the retries were exhausted and the
\* warning was logged.
C5_Original ==
    KillReturnedInOwner => (DOMAIN process_map = {} \/ WarnedOutOfRetries)

\* C5 amended: when a kill_children call made in the owner process
\* returns, the process map is empty, or the retries were exhausted and the
\* warning was logged, or the call ran on Windows in a process that is not
\* the multiprocessing main process and returned at once.
C5_EmptyOrWarnedOrNotMain ==
    KillReturnedInOwner =>
        \/ DOMAIN process_map = {}
        \/ WarnedOutOfRetries
        \/ is_windows /\ ~main_process /\ lastOp.how = "not_main"

\* a call in the owner has returned with the warning, a child left in the map
C5_Witness ==
    /\ KillReturnedInOwner
    /\ WarnedOutOfRetries
    /\ DOMAIN process_map /= {}
    /\ ~AllRecordedDead

\* C6: a step of a kill_children invocation in a process that is not the
\* owner leaves the process map and every child as they are (nothing is
\* terminated or killed); with a callable captured SIGTERM handler the
\* invocation ends by returning what that handler returns, called with the
\* signal arguments of the invocation.
C6_NonOwnerDelegates ==
    [][(getpid /= _pid /\ KcStep) =>
          /\ UNCHANGED <<process_map, map_order, procs>>
          /\ sigterm_handler = "callable" =>
                /\ lastOp'.op = "kill_children"
                /\ lastOp'.outcome = "return"
                /\ lastOp'.how = "delegated"
                /\ lastOp'.args = Top.sig]_vars

\* in a forked child with live recorded siblings, kill_children(SIGTERM,
\* frame) has handed the signal arguments to the captured handler
C6_Witness ==
    /\ getpid /= _pid
    /\ lastOp.op = "kill_children"
    /\ lastOp.how = "delegated"
    /\ lastOp.args = "SIGTERM"
    /\ \E p \in DOMAIN process_map : is_alive(procs, process_map[p].Process)

\* C7: a kill_children invocation in a process that is not the owner, with
\* a captured SIGTERM handler that is not callable, returns normally.
C7_NonCallableReturns ==
    (lastOp.op = "kill_children" /\ lastOp.by /= _pid
        /\ sigterm_handler /= "callable") => lastOp.outcome = "return"

\* how often the top-level kill_children call that is running has invoked
\* itself again so far: every recursive invocation takes one off retry
Reinvocations == Top.retry0 - Top.retry

\* C15: a kill_children call in the owner has invoked itself again at most
\* as many times as the retry count its top-level call was given, which is
\* at most 3 times with the default retry.
C15_RecursionWithinRetryCount ==
    (Running("kill_children") /\ getpid = _pid) =>
        /\ Reinvocations <= Top.retry0
        /\ Top.retry0 = DefaultRetry => Reinvocations <= 3

\* the recorded children that a step has taken out of the map
Replaced ==
    {process_map[p].Process :
        p \in {q \in DOMAIN process_map :
                  \/ q \notin DOMAIN process_map'
                  \/ process_map'[q].Process /= process_map[q].Process}}

\* C21: no step that starts a replacement replaces a child of which
\* kill_children has requested termination.
C21_NoRestartOfDyingChild ==
    [][RestartStarted =>
          \A h \in Replaced : "terminate" \notin procs[h].sigs]_vars

\* a step in which SIGKILL reaches a child that had not got it before
SigkillSent ==
    \E h \in (DOMAIN procs) \cap (DOMAIN procs') :
        "SIGKILL" \in procs'[h].sigs \ procs[h].sigs

\* C23: on POSIX SIGKILL is sent only in the forced-kill phase of
\* kill_children, after the graceful wait of the invocation has run to its
\* deadline and when termination has been requested of every live recorded
\* child; a round of the forced kill leaves no live recorded child without
\* SIGKILL, except those for which os.kill raised.
C23_EscalationOrdered ==
    [][~is_windows =>
          /\ SigkillSent =>
                /\ Running("kill_children") /\ Top.pc = "kill" /\ Top.expired
                /\ \A p \in DOMAIN process_map :
                      is_alive(procs, process_map[p].Process) =>
                          "terminate" \in procs[process_map[p].Process].sigs
          /\ (Running("kill_children") /\ Top.pc = "kill"
                 /\ Top.kill_iterations >= 0 /\ stack' /= stack) =>
                \A fails \in SUBSET (DOMAIN process_map) :
                    KcKillWith(fails) =>
                       \A p \in DOMAIN process_map' :
                           is_alive(procs', process_map'[p].Process) =>
                               \/ "SIGKILL" \in procs'[process_map'[p].Process].sigs
                               \/ p \in fails]_vars

\* the forced kill has sent SIGKILL to a child that survived the graceful
\* wait
C23_Witness ==
    /\ ~is_windows
    /\ Running("kill_children") /\ Top.pc = "kill" /\ Top.kill_iterations = 1
    /\ \E p \in DOMAIN process_map :
          /\ is_alive(procs, process_map[p].Process)
          /\ {"terminate", "SIGKILL"} \subseteq procs[process_map[p].Process].sigs

\* the rounds of the forced kill that the running kill_children invocation
\* has made: kill_iterations starts at 2 and every round takes one off
KillRounds == 2 - Top.kill_iterations

\* C24: in the forced-kill phase of a kill_children invocation in which a
\* recorded child stays alive, at most two rounds over the children have
\* been made.
C24_AtMostTwoKillRounds ==
    (/\ ~is_windows
     /\ Running("kill_children") /\ Top.pc = "kill"
     /\ \E p \in DOMAIN process_map : is_alive(procs, process_map[p].Process))
        => KillRounds <= 2

\* C26: a kill_children call in the owner comes to an end, whatever the
\* map holds and whether or not a child ever dies.
C26_KillChildrenTerminates ==
    (Running("kill_children") /\ getpid = _pid) ~> Idle

\* a kill_children call has ended with a child that is alive still in the
\* map, after the retries of the default retry count
C26_Witness ==
    /\ Idle /\ getpid = _pid
    /\ lastOp.op = "kill_children" /\ lastOp.how = "warning"
    /\ lastOp.retry = -1
    /\ \E p \in DOMAIN process_map : is_alive(procs, process_map[p].Process)

\* a restart_process call goes on after kill_children has run to its end as
\* a signal handler on top of it
Resumed == Running("restart_process") /\ Top.interrupted

\* C27: on POSIX, a restart_process call that goes on after kill_children
\* has run as a signal handler during it does not come to read or delete
\* the map entry of a pid that is no longer a key of the map, and the child
\* it has started is not left alive and recorded without termination ever
\* having been requested of it.
C27_InterruptedRestartIsSafe ==
    (~is_windows /\ Resumed) =>
        /\ Top.pc \in {"start", "del"} => Top.pid \in DOMAIN process_map
        /\ ~(/\ Top.pc = "del"
              /\ is_alive(procs, Top.h)
              /\ procs[Top.h].sigs = {}
              /\ \E p \in DOMAIN process_map : process_map[p].Process = Top.h)

(* ---------------- claims about the ThreadPool ---------------- *)

Rets(n) == [i \in 1..n |-> fired[i].ret]

\* C8: fire_async never blocks, whatever the workers do: a call is possible
\* in every state; when the bounded queue already holds queue_size tasks the
\* call returns false and leaves the queue as it was, otherwise it appends
\* exactly its one task at the tail and returns true.
C8_FireAsyncNeverBlocks ==
    /\ [](Len(fired) < MaxFire => \A k \in TaskKinds : ENABLED fire_async(k))
    /\ [][Len(fired') > Len(fired) =>
            /\ Len(fired') = Len(fired) + 1
            /\ LET e == fired'[Len(fired')]
               IN IF queue_size > 0 /\ Len(job_queue) = queue_size
                  THEN ~e.ret /\ job_queue' = job_queue
                  ELSE e.ret /\ job_queue' = Append(job_queue, e.task)]_vars

\* a call was refused on a full bounded queue after the workers had
\* dequeued tasks and earlier calls had been accepted
C8_Witness ==
    /\ queue_size > 0
    /\ Len(fired) >= 3
    /\ ~fired[Len(fired)].ret
    /\ fired[1].ret
    /\ Len(job_queue) = queue_size
    /\ taken > 0

\* C9: the number of live worker threads equals num_threads in every
\* reachable state, whatever the tasks raise.
C9_LiveWorkersEqualNumThreads == Cardinality(LiveWorkers) = num_threads

\* The scenario of C10: one worker, queue_size 2, four calls made while no
\* task invocation has ended (the tasks are long-running).
C10_Scenario ==
    /\ num_threads = 1
    /\ queue_size = 2
    /\ Len(fired) >= 4
    /\ completed = 0

\* C10 as stated: the four calls return true, true, true, false under
\* every interleaving of the submitter with the worker.
C10_Original == C10_Scenario => Rets(4) = <<TRUE, TRUE, TRUE, FALSE>>

\* C10 amended: the first two calls return true; the third returns true
\* exactly when the worker has dequeued the first task before it; the
\* fourth returns true exactly when the third was refused and the worker
\* dequeued a task before the fourth; so never more than three are accepted.
C10_Backpressure ==
    C10_Scenario =>
        /\ fired[1].ret /\ fired[2].ret
        /\ fired[3].ret <=> (fired[3].taken >= 1)
        /\ fired[4].ret <=> (~fired[3].ret /\ fired[4].taken >= 1)
        /\ ~(fired[3].ret /\ fired[4].ret)

C10_Witness ==
    /\ C10_Scenario
    /\ Rets(4) = <<TRUE, TRUE, TRUE, FALSE>>
    /\ fired[3].taken = 1

====
